---- MODULE Spec2Model ----
(***************************************************************************)
(* A model of qkernel: the kernel-session lifecycle (src/kernel.py:        *)
(* load_state, save_state, clear_state, start_kernel, stop_kernel,         *)
(* restart_kernel, is_kernel_running, get_client), the execution loop      *)
(* (src/kernel.py: execute_code) and the batch command (src/cli.py: run).  *)
(*                                                                         *)
(* SpecExec is the execution loop of one client on one iopub channel.      *)
(* Spec is a single controller issuing lifecycle commands and batch runs,  *)
(* with the environment free to end processes and remove connection files  *)
(* between the controller's steps.                                         *)
(*                                                                         *)
(* An optional value (Python None or a value) is a sequence of length 0    *)
(* or 1: <<>> is None, <<v>> is the value v.                               *)
(***************************************************************************)
EXTENDS Naturals, Sequences, FiniteSets

(***************************************************************************)
(* Bounds of the model.                                                    *)
(***************************************************************************)
MaxCalls == 2      \* execute_code calls made on the channel
MaxOwn == 2        \* notifications the kernel emits for one request before its idle status
MaxChan == 1       \* notifications waiting on the iopub channel
MaxTimeout == 1    \* largest timeout argument, in clock ticks
DefaultTicks == 2  \* the default receive timeout (600 s, kernel.py:230) in ticks
MaxSpawn == 3      \* kernel subprocesses spawned in one behaviour
MaxUnits == 2      \* code cells of one batch run

VARIABLES
    \* ---- execution loop (execute_code) ----
    pc,            \* "idle": no call in progress; "recv": inside the while loop
    msg_id,        \* correlation token of the current (or last) request
    timeout,       \* the timeout argument of the current call (0: None)
    acc,           \* the loop's locals stdout_parts, stderr_parts, result, display_data, error
    chan,          \* notifications waiting on the iopub channel, head first
    waited,        \* ticks the current get_iopub_msg has been blocked
    out,           \* the CellOutput the last call returned, <<>> during a call
    ownEmitted,    \* notifications emitted for the current request (MaxOwn + 1: idle emitted)
    \* ---- history of the current call (not read by the code) ----
    matched,       \* the delivered notifications whose parent is msg_id, in order
    skipped,       \* the parents, other than msg_id, of the delivered notifications
    skippedIdle,   \* an idle status with another parent was delivered
    endedBy,       \* "none", "idle" (completion signal) or "recvfail"
    \* ---- session lifecycle ----
    store,         \* the state file: <<>> absent, <<r>> holding the KernelState r
    alive,         \* the pids of the live kernel subprocesses
    connFiles,     \* the connection files that exist
    spawned,       \* kernels spawned so far; kernel k has pid k and connection file k
    last,          \* the last kernel.py call of the controller, what it returned and
                   \* the steps it took (again: a start that repeats the outcome of
                   \* the start before it, a stop after a stop that returned True;
                   \* healed: the record that the load_state of a stop deleted)
    run,           \* the locals of the batch command in progress (cli.py: run)
    rlog,          \* history of the batch: what it found, started, used and stopped,
                   \* the cells it executed and the error field of each result,
                   \* and what ended its setup ("": nothing)
    \* ---- concurrent controller processes ----
    ctl            \* for each controller process, where it is in its kernel.py call,
                   \* the locals of the call, and what it found and returned

execVars == <<pc, msg_id, timeout, acc, chan, waited, out, ownEmitted,
              matched, skipped, skippedIdle, endedBy>>

lifeVars == <<store, alive, connFiles, spawned, last, run, rlog>>

concVars == <<ctl>>

vars == <<execVars, lifeVars, concVars>>

(***************************************************************************)
(* Notifications on the iopub channel.  A notification is                  *)
(* [parent, msg_type, content]: parent stands for                          *)
(* msg["parent_header"]["msg_id"] (0: no parent header, or a request of    *)
(* another client), msg_type for msg["header"]["msg_type"].                *)
(***************************************************************************)
StreamContents ==
    {[name |-> "stdout", text |-> "a"], [name |-> "stdout", text |-> "b"],
     [name |-> "stderr", text |-> "a"], [name |-> "other", text |-> "a"]}
DataContents == {[data |-> "d1"], [data |-> "d2"]}
ErrorContents ==
    {[ename |-> "NameError", evalue |-> "v", traceback |-> <<"tb">>],
     [ename |-> "ValueError", evalue |-> "v", traceback |-> <<"tb">>]}
StatusContents == {[execution_state |-> "busy"], [execution_state |-> "idle"]}

Notifications(parents) ==
    [parent : parents, msg_type : {"stream"}, content : StreamContents]
    \cup [parent : parents, msg_type : {"execute_result", "display_data"},
          content : DataContents]
    \cup [parent : parents, msg_type : {"error"}, content : ErrorContents]
    \cup [parent : parents, msg_type : {"status"}, content : StatusContents]
    \cup [parent : parents, msg_type : {"execute_input"},
          content : {[code |-> "c"]}]

\* The notifications of other requests that the model delivers.
CrossTalk(parents) ==
    {m \in Notifications(parents) :
        \/ m.msg_type = "stream" /\ m.content = [name |-> "stdout", text |-> "b"]
        \/ m.msg_type = "error" /\ m.content.ename = "ValueError"
        \/ m.msg_type = "status" /\ m.content.execution_state = "idle"}

IsStatus(m, state) == m.msg_type = "status" /\ m.content.execution_state = state

(***************************************************************************)
(* execute_code, kernel.py:197-275.                                        *)
(***************************************************************************)
\* kernel.py:221-225: the locals before the loop.
EmptyAcc ==
    [stdout_parts |-> <<>>, stderr_parts |-> <<>>, result |-> <<>>,
     display_data |-> <<>>, error |-> <<>>]

\* kernel.py:230: timeout or 600.
ReceiveTimeout(t) == IF t = 0 THEN DefaultTicks ELSE t

\* Faulty variant: any notification that has a parent header is taken.
ForThisExecution_AnyParent(m, id) == m.parent # 0

\* kernel.py:238: the notification belongs to this execution.
ForThisExecution(m, id) == m.parent = id

\* Faulty variant: a stdout fragment is put in front of the earlier ones.
Collect_Prepend(a, m) ==
    IF m.msg_type = "stream" THEN
        IF m.content.name = "stdout"
        THEN [a EXCEPT !.stdout_parts = <<m.content.text>> \o @]
        ELSE IF m.content.name = "stderr"
        THEN [a EXCEPT !.stderr_parts = Append(@, m.content.text)]
        ELSE a
    ELSE IF m.msg_type = "execute_result" THEN
        [a EXCEPT !.result = <<m.content.data>>]
    ELSE IF m.msg_type = "display_data" THEN
        [a EXCEPT !.display_data = Append(@, m.content.data)]
    ELSE IF m.msg_type = "error" THEN
        [a EXCEPT !.error = <<[ename |-> m.content.ename,
                               evalue |-> m.content.evalue,
                               traceback |-> m.content.traceback]>>]
    ELSE a

\* kernel.py:241-258: the branches that collect output.
Collect(a, m) ==
    IF m.msg_type = "stream" THEN
        IF m.content.name = "stdout"
        THEN [a EXCEPT !.stdout_parts = Append(@, m.content.text)]
        ELSE IF m.content.name = "stderr"
        THEN [a EXCEPT !.stderr_parts = Append(@, m.content.text)]
        ELSE a
    ELSE IF m.msg_type = "execute_result" THEN
        [a EXCEPT !.result = <<m.content.data>>]
    ELSE IF m.msg_type = "display_data" THEN
        [a EXCEPT !.display_data = Append(@, m.content.data)]
    ELSE IF m.msg_type = "error" THEN
        [a EXCEPT !.error = <<[ename |-> m.content.ename,
                               evalue |-> m.content.evalue,
                               traceback |-> m.content.traceback]>>]
    ELSE a

\* Faulty variant: any status of this request ends the loop.
IsCompletion_AnyStatus(m) == m.msg_type = "status"

\* kernel.py:260-262: the branch that ends the loop.
IsCompletion(m) ==
    m.msg_type = "status" /\ m.content.execution_state = "idle"

\* "".join(parts), kernel.py:265-266.
RECURSIVE Join(_)
Join(parts) ==
    IF parts = <<>> THEN "" ELSE Head(parts) \o Join(Tail(parts))

\* kernel.py:264-270.
CellOutput(a) ==
    [stdout |-> Join(a.stdout_parts), stderr |-> Join(a.stderr_parts),
     result |-> a.result, display_data |-> a.display_data, error |-> a.error]

ExecInit ==
    /\ pc = "idle"
    /\ msg_id = 0
    /\ timeout = 0
    /\ acc = EmptyAcc
    /\ chan = <<>>
    /\ waited = 0
    /\ out = <<>>
    /\ ownEmitted = 0
    /\ matched = <<>>
    /\ skipped = {}
    /\ skippedIdle = FALSE
    /\ endedBy = "none"

\* kernel.py:218-225: client.execute(code) returns a fresh msg_id.
Submit(t) ==
    /\ pc = "idle"
    /\ msg_id < MaxCalls
    /\ pc' = "recv"
    /\ msg_id' = msg_id + 1
    /\ timeout' = t
    /\ acc' = EmptyAcc
    /\ waited' = 0
    /\ ownEmitted' = 0
    /\ matched' = <<>>
    /\ skipped' = {}
    /\ skippedIdle' = FALSE
    /\ endedBy' = "none"
    /\ out' = <<>>
    /\ UNCHANGED <<chan, lifeVars, concVars>>

\* The kernel publishes a notification of the current request; its idle status
\* is the last one it publishes for the request.
EmitOwn(m) ==
    /\ pc = "recv"
    /\ m.parent = msg_id
    /\ \/ ownEmitted < MaxOwn
       \/ ownEmitted = MaxOwn /\ IsStatus(m, "idle")
    /\ Len(chan) < MaxChan
    /\ chan' = Append(chan, m)
    /\ ownEmitted' = IF IsStatus(m, "idle") THEN MaxOwn + 1 ELSE ownEmitted + 1
    /\ UNCHANGED <<pc, msg_id, timeout, acc, waited, out, matched, skipped, skippedIdle, endedBy,
                   lifeVars, concVars>>

\* The kernel publishes a notification of an earlier request of this client
\* (parent < msg_id) or of no request of this client (parent 0), at any time.
EmitOther(m) ==
    /\ m.parent < msg_id
    /\ Len(chan) < MaxChan
    /\ chan' = Append(chan, m)
    /\ UNCHANGED <<pc, msg_id, timeout, acc, waited, out, ownEmitted, matched,
                   skipped, skippedIdle, endedBy,
                   lifeVars, concVars>>

\* Time passes while get_iopub_msg blocks on an empty channel.
Tick ==
    /\ pc = "recv"
    /\ chan = <<>>
    /\ waited < ReceiveTimeout(timeout)
    /\ waited' = waited + 1
    /\ UNCHANGED <<pc, msg_id, timeout, acc, chan, out, ownEmitted, matched,
                   skipped, skippedIdle, endedBy,
                   lifeVars, concVars>>

\* kernel.py:228-262: one iteration in which get_iopub_msg returns a message.
Receive ==
    /\ pc = "recv"
    /\ chan # <<>>
    /\ LET m == Head(chan) IN
        /\ chan' = Tail(chan)
        /\ waited' = 0
        /\ IF ~ForThisExecution(m, msg_id)
           THEN \* continue
                /\ UNCHANGED <<pc, acc, out>>
           ELSE IF IsCompletion(m)
           THEN \* break, then return CellOutput(...)
                /\ pc' = "idle"
                /\ out' = <<CellOutput(acc)>>
                /\ UNCHANGED acc
           ELSE /\ acc' = Collect(acc, m)
                /\ UNCHANGED <<pc, out>>
        /\ matched' = IF m.parent = msg_id THEN Append(matched, m) ELSE matched
        /\ skipped' = IF m.parent = msg_id THEN skipped ELSE skipped \cup {m.parent}
        /\ skippedIdle' = (skippedIdle \/ (m.parent # msg_id /\ IsStatus(m, "idle")))
        /\ endedBy' = IF pc' = "idle" THEN "idle" ELSE endedBy
    /\ UNCHANGED <<msg_id, timeout, ownEmitted, lifeVars, concVars>>

\* kernel.py:229-232: get_iopub_msg raises queue.Empty after the timeout; break.
ReceiveTimesOut ==
    /\ pc = "recv"
    /\ chan = <<>>
    /\ waited = ReceiveTimeout(timeout)
    /\ pc' = "idle"
    /\ out' = <<CellOutput(acc)>>
    /\ endedBy' = "recvfail"
    /\ UNCHANGED <<msg_id, timeout, acc, chan, waited, ownEmitted, matched, skipped,
                   skippedIdle, lifeVars, concVars>>

\* kernel.py:229-232: get_iopub_msg raises any other Exception; break.
ReceiveFails ==
    /\ pc = "recv"
    /\ pc' = "idle"
    /\ out' = <<CellOutput(acc)>>
    /\ endedBy' = "recvfail"
    /\ UNCHANGED <<msg_id, timeout, acc, chan, waited, ownEmitted, matched, skipped,
                   skippedIdle, lifeVars, concVars>>

(***************************************************************************)
(* The session store and the supervisor, kernel.py:14-183 and 277-283.     *)
(* The functions are operators on the world w = [store, alive, connFiles,  *)
(* spawned]; each returns the world it leaves and what it returns or       *)
(* raises.  What the library and the operating system do is an argument:   *)
(* every outcome is drawn by the action that makes the call.               *)
(***************************************************************************)
Kinds == {"python3", "ir"}

\* kernel.py:14-20.
KernelState(c, k, p) == [connection_file |-> c, kernel_name |-> k, pid |-> p]

World == [store |-> store, alive |-> alive, connFiles |-> connFiles,
          spawned |-> spawned]

\* kernel.py:74-76.
clear_state(w) == [w EXCEPT !.store = <<>>]

\* kernel.py:68-71.
save_state(w, state) == [w EXCEPT !.store = <<state>>]

(***************************************************************************)
(* The content of the state file.  What save_state writes is the document  *)
(* of a KernelState, modelled by the record itself.  Any other content is  *)
(* a document with a defect: a record that has the field malformed, and    *)
(* the fields of a KernelState as far as the document has them (0 where    *)
(* it has not).                                                            *)
(***************************************************************************)
Defects ==
    {"unreadable",               \* bytes that are not UTF-8 text
     "not_json",                 \* text that is not JSON (empty, cut short)
     "not_object",               \* a JSON list, string, number or null
     "missing_field",            \* an object without one of the three keys
     "extra_field",              \* an object with a fourth key
     "pid_not_int",              \* pid is a string, a float or null
     "connection_file_not_str",  \* connection_file is a number or null
     "kernel_name_not_str"}      \* kernel_name is a number or null

DefectOf(doc) == IF "malformed" \in DOMAIN doc THEN doc.malformed ELSE ""

\* kernel.py:46-47: the exception read_text(), json.loads() or
\* KernelState(**data) raises on a document with the defect d ("": none).
ReadRaises(d) ==
    IF d = "unreadable" THEN "UnicodeDecodeError"
    ELSE IF d = "not_json" THEN "JSONDecodeError"
    ELSE IF d \in {"not_object", "missing_field", "extra_field"} THEN "TypeError"
    ELSE ""

\* kernel.py:63: the exceptions the outer try of load_state handles.
HandledOnLoad == {"JSONDecodeError", "KeyError", "TypeError"}

\* Faulty variant: the connection file is not looked for.
load_state_NoConnectionCheck(w) ==
    IF w.store = <<>> THEN [w |-> w, ret |-> <<>>, raised |-> ""]
    ELSE LET state == w.store[1]
             d == DefectOf(state)
             deleted == [w |-> [w EXCEPT !.store = <<>>], ret |-> <<>>, raised |-> ""]
             Except(e) == IF e \in HandledOnLoad THEN deleted
                          ELSE [w |-> w, ret |-> <<>>, raised |-> e]
         IN
        IF ReadRaises(d) # "" THEN Except(ReadRaises(d))
        ELSE IF d = "pid_not_int" THEN Except("TypeError")
        ELSE IF state.pid \notin w.alive THEN deleted
        ELSE [w |-> w, ret |-> <<state>>, raised |-> ""]

\* Faulty variant: a record whose connection file is gone is deleted together
\* with its process.
load_state_ReapsProcess(w) ==
    IF w.store = <<>> THEN [w |-> w, ret |-> <<>>, raised |-> ""]
    ELSE LET state == w.store[1]
             d == DefectOf(state)
             deleted == [w |-> [w EXCEPT !.store = <<>>], ret |-> <<>>, raised |-> ""]
             Except(e) == IF e \in HandledOnLoad THEN deleted
                          ELSE [w |-> w, ret |-> <<>>, raised |-> e]
         IN
        IF ReadRaises(d) # "" THEN Except(ReadRaises(d))
        ELSE IF d = "pid_not_int" THEN Except("TypeError")
        ELSE IF state.pid \notin w.alive THEN deleted
        ELSE IF d = "connection_file_not_str" THEN Except("TypeError")
        ELSE IF state.connection_file \notin w.connFiles
        THEN [w |-> [w EXCEPT !.store = <<>>, !.alive = @ \ {state.pid}],
              ret |-> <<>>, raised |-> ""]
        ELSE [w |-> w, ret |-> <<state>>, raised |-> ""]

\* kernel.py:35-65: the state returned (<<>>: None), the exception that leaves
\* the function ("": none) and the world left.
load_state(w) ==
    \* kernel.py:42-43
    IF w.store = <<>> THEN [w |-> w, ret |-> <<>>, raised |-> ""]
    ELSE LET state == w.store[1]
             d == DefectOf(state)
             deleted == [w |-> [w EXCEPT !.store = <<>>], ret |-> <<>>, raised |-> ""]
             \* kernel.py:63-65
             Except(e) == IF e \in HandledOnLoad THEN deleted
                          ELSE [w |-> w, ret |-> <<>>, raised |-> e]
         IN
        \* kernel.py:46-47
        IF ReadRaises(d) # "" THEN Except(ReadRaises(d))
        \* kernel.py:50-55: os.kill raises TypeError on a pid that is no integer,
        \* outside the handler of the inner try
        ELSE IF d = "pid_not_int" THEN Except("TypeError")
        ELSE IF state.pid \notin w.alive THEN deleted
        \* kernel.py:58-60: Path() raises TypeError on what is no string
        ELSE IF d = "connection_file_not_str" THEN Except("TypeError")
        ELSE IF state.connection_file \notin w.connFiles THEN deleted
        \* kernel.py:62: kernel_name is not looked at
        ELSE [w |-> w, ret |-> <<state>>, raised |-> ""]

\* kernel.py:277-283.
is_kernel_running(w) ==
    LET l == load_state(w) IN
    [w |-> l.w, ret |-> l.ret # <<>>, raised |-> l.raised]

\* Faulty variant: a kernel is spawned whether or not one is tracked.
start_kernel_NoCheck(w, kernel_name, spawnOK) ==
    LET l == load_state(w) IN
    IF l.raised # ""
    THEN [w |-> l.w, raised |-> l.raised, ret |-> <<>>]
    ELSE IF ~spawnOK
    THEN [w |-> l.w, raised |-> "SpawnFailed", ret |-> <<>>]
    ELSE LET k == l.w.spawned + 1
             state == KernelState(k, kernel_name, k)
             w1 == [l.w EXCEPT !.spawned = k, !.alive = @ \cup {k},
                               !.connFiles = @ \cup {k}]
         IN [w |-> save_state(w1, state), raised |-> "", ret |-> <<state>>]

\* Faulty variant: the record is saved before the kernel is spawned.
start_kernel_SavesFirst(w, kernel_name, spawnOK) ==
    LET l == load_state(w) IN
    IF l.raised # ""
    THEN [w |-> l.w, raised |-> l.raised, ret |-> <<>>]
    ELSE IF l.ret # <<>>
    THEN [w |-> l.w, raised |-> "AlreadyRunning", ret |-> <<>>]
    ELSE LET k == l.w.spawned + 1
             state == KernelState(k, kernel_name, k)
             w1 == [l.w EXCEPT !.spawned = k, !.alive = @ \cup {k},
                               !.connFiles = @ \cup {k}]
         IN IF ~spawnOK
            THEN [w |-> save_state(l.w, state), raised |-> "SpawnFailed", ret |-> <<>>]
            ELSE [w |-> save_state(w1, state), raised |-> "", ret |-> <<state>>]

\* Faulty variant: the record is built with the default kernel name.
start_kernel_DefaultName(w, kernel_name, spawnOK) ==
    LET l == load_state(w) IN
    IF l.raised # ""
    THEN [w |-> l.w, raised |-> l.raised, ret |-> <<>>]
    ELSE IF l.ret # <<>>
    THEN [w |-> l.w, raised |-> "AlreadyRunning", ret |-> <<>>]
    ELSE IF ~spawnOK
    THEN [w |-> l.w, raised |-> "SpawnFailed", ret |-> <<>>]
    ELSE LET k == l.w.spawned + 1
             state == KernelState(k, "python3", k)
             w1 == [l.w EXCEPT !.spawned = k, !.alive = @ \cup {k},
                               !.connFiles = @ \cup {k}]
         IN [w |-> save_state(w1, state), raised |-> "", ret |-> <<state>>]

\* kernel.py:79-107.  spawnOK: km.start_kernel() creates the subprocess.
start_kernel(w, kernel_name, spawnOK) ==
    LET l == load_state(w) IN
    IF l.raised # ""
    THEN [w |-> l.w, raised |-> l.raised, ret |-> <<>>]
    ELSE IF l.ret # <<>>
    THEN [w |-> l.w, raised |-> "AlreadyRunning", ret |-> <<>>]
    ELSE IF ~spawnOK
    THEN [w |-> l.w, raised |-> "SpawnFailed", ret |-> <<>>]
    ELSE LET k == l.w.spawned + 1
             state == KernelState(k, kernel_name, k)
             w1 == [l.w EXCEPT !.spawned = k, !.alive = @ \cup {k},
                               !.connFiles = @ \cup {k}]
         IN [w |-> save_state(w1, state), raised |-> "", ret |-> <<state>>]

\* What the teardown steps of stop_kernel may do.
\*   shutdown: km.shutdown_kernel(now=True) returns with the process ended
\*             ("ended") or not ("returned"), or raises with the process not
\*             ended ("raised") or ended ("raised_ended");
\*   kill:     os.kill(pid, SIGTERM) ends the process ("ended"), is delivered
\*             without effect ("survived"), or raises OSError ("raised");
\*             ("none": not called, the shutdown did not raise);
\*   unlink:   the removal of the connection file succeeds or raises.
Teardowns ==
    {o \in [shutdown : {"ended", "returned", "raised", "raised_ended"},
            kill : {"none", "ended", "survived", "raised"},
            unlink : {"removed", "raised"}] :
        o.kill = "none" <=> o.shutdown \in {"ended", "returned"}}

\* Faulty variant: an error removing the connection file is not caught, and leaves
\* stop_kernel before the store is cleared.
stop_kernel_UnlinkErrorLeaves(w, o) ==
    LET l == load_state(w) IN
    IF l.raised # ""
    THEN [w |-> l.w, ret |-> FALSE, steps |-> <<>>, raised |-> l.raised]
    ELSE IF l.ret = <<>>
    THEN [w |-> l.w, ret |-> FALSE, steps |-> <<>>, raised |-> ""]
    ELSE
        LET state == l.ret[1]
            w1 == IF o.shutdown \in {"ended", "raised_ended"}
                  THEN [l.w EXCEPT !.alive = @ \ {state.pid}] ELSE l.w
            fallback == o.shutdown \in {"raised", "raised_ended"}
            killed == IF state.pid \notin w1.alive THEN "raised" ELSE o.kill
            w2 == IF fallback /\ killed = "ended"
                  THEN [w1 EXCEPT !.alive = @ \ {state.pid}] ELSE w1
            w3 == IF o.unlink = "removed"
                  THEN [w2 EXCEPT !.connFiles = @ \ {state.connection_file}]
                  ELSE w2
            steps == <<<<"shutdown", o.shutdown>>>>
                     \o (IF fallback THEN <<<<"kill", killed>>>> ELSE <<>>)
                     \o <<<<"unlink", o.unlink>>>>
        IN  IF o.unlink = "raised"
            THEN [w |-> w3, ret |-> FALSE, steps |-> steps, raised |-> ""]
            ELSE [w |-> clear_state(w3), ret |-> TRUE,
                  steps |-> Append(steps, <<"clear", "done">>), raised |-> ""]

\* Faulty variant: the store is cleared only when the process has ended.
stop_kernel_ClearsOnlyIfEnded(w, o) ==
    LET l == load_state(w) IN
    IF l.raised # ""
    THEN [w |-> l.w, ret |-> FALSE, steps |-> <<>>, raised |-> l.raised]
    ELSE IF l.ret = <<>>
    THEN [w |-> l.w, ret |-> FALSE, steps |-> <<>>, raised |-> ""]
    ELSE
        LET state == l.ret[1]
            w1 == IF o.shutdown \in {"ended", "raised_ended"}
                  THEN [l.w EXCEPT !.alive = @ \ {state.pid}] ELSE l.w
            fallback == o.shutdown \in {"raised", "raised_ended"}
            killed == IF state.pid \notin w1.alive THEN "raised" ELSE o.kill
            w2 == IF fallback /\ killed = "ended"
                  THEN [w1 EXCEPT !.alive = @ \ {state.pid}] ELSE w1
            steps == <<<<"shutdown", o.shutdown>>>>
                     \o (IF fallback THEN <<<<"kill", killed>>>> ELSE <<>>)
        IN  IF state.pid \in w2.alive
            THEN [w |-> w2, ret |-> FALSE, steps |-> steps, raised |-> ""]
            ELSE [w |-> clear_state([w2 EXCEPT !.connFiles = @ \ {state.connection_file}]),
                  ret |-> TRUE,
                  steps |-> steps \o <<<<"unlink", "removed">>, <<"clear", "done">>>>,
                  raised |-> ""]

\* Faulty variant: the termination signal is sent whatever the shutdown did.
stop_kernel_AlwaysSignals(w, o) ==
    LET l == load_state(w) IN
    IF l.raised # ""
    THEN [w |-> l.w, ret |-> FALSE, steps |-> <<>>, raised |-> l.raised]
    ELSE IF l.ret = <<>>
    THEN [w |-> l.w, ret |-> FALSE, steps |-> <<>>, raised |-> ""]
    ELSE
        LET state == l.ret[1]
            w1 == IF o.shutdown \in {"ended", "raised_ended"}
                  THEN [l.w EXCEPT !.alive = @ \ {state.pid}] ELSE l.w
            killed == IF state.pid \notin w1.alive THEN "raised" ELSE "ended"
            w2 == [w1 EXCEPT !.alive = @ \ {state.pid}]
            w3 == IF o.unlink = "removed"
                  THEN [w2 EXCEPT !.connFiles = @ \ {state.connection_file}]
                  ELSE w2
            steps == <<<<"shutdown", o.shutdown>>, <<"kill", killed>>,
                       <<"unlink", o.unlink>>, <<"clear", "done">>>>
        IN  [w |-> clear_state(w3), ret |-> TRUE, steps |-> steps, raised |-> ""]

\* Faulty variant: without a tracked kernel, the connection files left behind are
\* removed.
stop_kernel_SweepsWithoutRecord(w, o) ==
    LET l == load_state(w) IN
    IF l.raised # ""
    THEN [w |-> l.w, ret |-> FALSE, steps |-> <<>>, raised |-> l.raised]
    ELSE IF l.ret = <<>>
    THEN [w |-> [l.w EXCEPT !.connFiles = {}], ret |-> FALSE, steps |-> <<>>,
          raised |-> ""]
    ELSE
        LET state == l.ret[1]
            w1 == IF o.shutdown \in {"ended", "raised_ended"}
                  THEN [l.w EXCEPT !.alive = @ \ {state.pid}] ELSE l.w
            fallback == o.shutdown \in {"raised", "raised_ended"}
            killed == IF state.pid \notin w1.alive THEN "raised" ELSE o.kill
            w2 == IF fallback /\ killed = "ended"
                  THEN [w1 EXCEPT !.alive = @ \ {state.pid}] ELSE w1
            w3 == IF o.unlink = "removed"
                  THEN [w2 EXCEPT !.connFiles = @ \ {state.connection_file}]
                  ELSE w2
            steps == <<<<"shutdown", o.shutdown>>>>
                     \o (IF fallback THEN <<<<"kill", killed>>>> ELSE <<>>)
                     \o <<<<"unlink", o.unlink>>, <<"clear", "done">>>>
        IN  [w |-> clear_state(w3), ret |-> TRUE, steps |-> steps, raised |-> ""]

\* kernel.py:110-139.  steps: the teardown steps taken, in order.
stop_kernel(w, o) ==
    LET l == load_state(w) IN
    IF l.raised # ""
    THEN [w |-> l.w, ret |-> FALSE, steps |-> <<>>, raised |-> l.raised]
    ELSE IF l.ret = <<>>
    THEN [w |-> l.w, ret |-> FALSE, steps |-> <<>>, raised |-> ""]
    ELSE
        LET state == l.ret[1]
            \* kernel.py:120-124
            w1 == IF o.shutdown \in {"ended", "raised_ended"}
                  THEN [l.w EXCEPT !.alive = @ \ {state.pid}] ELSE l.w
            fallback == o.shutdown \in {"raised", "raised_ended"}
            \* kernel.py:125-130: a dead pid raises ProcessLookupError
            killed == IF state.pid \notin w1.alive THEN "raised" ELSE o.kill
            w2 == IF fallback /\ killed = "ended"
                  THEN [w1 EXCEPT !.alive = @ \ {state.pid}] ELSE w1
            \* kernel.py:132-136
            w3 == IF o.unlink = "removed"
                  THEN [w2 EXCEPT !.connFiles = @ \ {state.connection_file}]
                  ELSE w2
            steps == <<<<"shutdown", o.shutdown>>>>
                     \o (IF fallback THEN <<<<"kill", killed>>>> ELSE <<>>)
                     \o <<<<"unlink", o.unlink>>, <<"clear", "done">>>>
        IN  \* kernel.py:138-139
            [w |-> clear_state(w3), ret |-> TRUE, steps |-> steps, raised |-> ""]

\* Faulty variant: the tracked kernel is not stopped first.
restart_kernel_NoStop(w, kernel_name, o, spawnOK) ==
    LET r == start_kernel(w, kernel_name, spawnOK)
    IN [w |-> r.w, raised |-> r.raised, ret |-> r.ret, steps |-> <<>>]

\* kernel.py:142-152.
restart_kernel(w, kernel_name, o, spawnOK) ==
    LET s == stop_kernel(w, o)
        r == start_kernel(s.w, kernel_name, spawnOK)
    IN IF s.raised # ""
       THEN [w |-> s.w, raised |-> s.raised, ret |-> <<>>, steps |-> s.steps]
       ELSE [w |-> r.w, raised |-> r.raised, ret |-> r.ret, steps |-> s.steps]

\* kernel.py:155-183 with state = None.  ready: wait_for_ready returns in time.
\* The client is identified by the connection file it loaded.
get_client(w, ready) ==
    LET l == load_state(w) IN
    IF l.raised # ""
    THEN [w |-> l.w, raised |-> l.raised, ret |-> <<>>]
    ELSE IF l.ret = <<>>
    THEN [w |-> l.w, raised |-> "NoSessionRunning", ret |-> <<>>]
    ELSE IF ~ready
    THEN [w |-> l.w, raised |-> "ConnectTimeout", ret |-> <<>>]
    ELSE [w |-> l.w, raised |-> "", ret |-> <<l.ret[1].connection_file>>]

\* kernel.py:197-270 with a client given, as a function of the events of the
\* channel: evs are the notifications get_iopub_msg returns, in order, and the
\* receive after the last of them raises.
RECURSIVE execute_code(_, _, _)
execute_code(a, id, evs) ==
    IF evs = <<>> THEN CellOutput(a)
    ELSE LET m == Head(evs) IN
        IF ~ForThisExecution(m, id) THEN execute_code(a, id, Tail(evs))
        ELSE IF IsCompletion(m) THEN CellOutput(a)
        ELSE execute_code(Collect(a, m), id, Tail(evs))

(***************************************************************************)
(* The controller: the commands of cli.py, one at a time.                  *)
(***************************************************************************)
NoCall == [op |-> "none", kind |-> "", raised |-> "", state |-> <<>>,
           ok |-> FALSE, steps |-> <<>>, again |-> FALSE, healed |-> <<>>]

NoRun == [pc |-> "none", had_kernel |-> FALSE, temp_kernel |-> FALSE,
          client |-> <<>>, todo |-> 0, error_count |-> 0, raised |-> FALSE]

NoLog == [tracked |-> <<>>, started |-> <<>>, used |-> {}, stops |-> 0,
          units |-> 0, failures |-> 0, exit |-> <<>>,
          selected |-> 0, order |-> <<>>, errors |-> <<>>, setup |-> ""]

LifeInit ==
    /\ store = <<>>
    /\ alive = {}
    /\ connFiles = {}
    /\ spawned = 0
    /\ last = NoCall
    /\ run = NoRun
    /\ rlog = NoLog

\* A controller process that has not made a call.
NoCtl == [pc |-> "idle", op |-> "", kind |-> "", state |-> <<>>,
          detached |-> FALSE, ret |-> <<>>, raised |-> "", found |-> "",
          racing |-> FALSE, wroteLast |-> FALSE]

Controllers == {"A", "B"}

ConcInit == ctl = [c \in Controllers |-> NoCtl]

Init == ExecInit /\ LifeInit /\ ConcInit

Become(w) ==
    /\ store' = w.store
    /\ alive' = w.alive
    /\ connFiles' = w.connFiles
    /\ spawned' = w.spawned

\* A spawn can succeed while the model has kernels left to spawn.
SpawnOutcomes == IF spawned < MaxSpawn THEN BOOLEAN ELSE {FALSE}

\* cli.py:37-48.
Start(kind, spawnOK) ==
    /\ run.pc = "none"
    /\ LET r == start_kernel(World, kind, spawnOK) IN
        /\ Become(r.w)
        /\ last' = [NoCall EXCEPT !.op = "start", !.kind = kind,
                                  !.raised = r.raised, !.state = r.ret,
                                  !.again = (last.op = "start" /\ last.raised = r.raised)]
    /\ run' = NoRun
    /\ rlog' = NoLog
    /\ UNCHANGED <<execVars, concVars>>

\* cli.py:52-57.
Stop(o) ==
    /\ run.pc = "none"
    /\ LET r == stop_kernel(World, o) IN
        /\ Become(r.w)
        /\ last' = [NoCall EXCEPT !.op = "stop", !.ok = r.ret, !.steps = r.steps,
                                  !.raised = r.raised,
                                  !.again = (last.op = "stop" /\ last.ok),
                                  !.healed = IF load_state(World).w.store = <<>>
                                             THEN store ELSE <<>>]
    /\ run' = NoRun
    /\ rlog' = NoLog
    /\ UNCHANGED <<execVars, concVars>>

\* cli.py:67-74.
Restart(kind, o, spawnOK) ==
    /\ run.pc = "none"
    /\ LET r == restart_kernel(World, kind, o, spawnOK) IN
        /\ Become(r.w)
        /\ last' = [NoCall EXCEPT !.op = "restart", !.kind = kind,
                                  !.raised = r.raised, !.state = r.ret,
                                  !.steps = r.steps]
    /\ run' = NoRun
    /\ rlog' = NoLog
    /\ UNCHANGED <<execVars, concVars>>

\* cli.py:206-217: is_kernel_running(), then load_state() when it is.
Status ==
    /\ run.pc = "none"
    /\ LET r == is_kernel_running(World)
           l == load_state(r.w)
       IN
        /\ Become(IF r.ret THEN l.w ELSE r.w)
        /\ last' = [NoCall EXCEPT !.op = "status", !.ok = r.ret,
                                  !.raised = r.raised,
                                  !.state = IF r.ret THEN l.ret ELSE <<>>,
                                  !.steps = IF store # <<>> /\ r.w.store = <<>>
                                            THEN <<<<"load", "deleted">>>> ELSE <<>>]
    /\ run' = NoRun
    /\ rlog' = NoLog
    /\ UNCHANGED <<execVars, concVars>>

(***************************************************************************)
(* The environment: a kernel process ends (it exits, crashes or is killed  *)
(* from outside) and a connection file is removed, at any time.            *)
(***************************************************************************)
ProcessEnds(p) ==
    /\ p \in alive
    /\ alive' = alive \ {p}
    /\ UNCHANGED <<store, connFiles, spawned, last, run, rlog, execVars, concVars>>

ConnectionFileRemoved(c) ==
    /\ c \in connFiles
    /\ connFiles' = connFiles \ {c}
    /\ UNCHANGED <<store, alive, spawned, last, run, rlog, execVars, concVars>>

(***************************************************************************)
(* The batch command, cli.py:98-202, in four steps: the setup up to the    *)
(* temporary kernel (120-164), the connection (166-173), one cell          *)
(* (180-186) and the finally block with the exit (188-202).                *)
(***************************************************************************)
\* What the parser and the selector (not part of the model) leave to run.
Parses == {"ok", "parse_error", "no_cells", "bad_selector"}

\* The notifications a cell's execution may receive on its channel.
UnitEvents(id) ==
    {[parent |-> id, msg_type |-> "stream",
      content |-> [name |-> "stdout", text |-> "a"]],
     [parent |-> id, msg_type |-> "error",
      content |-> [ename |-> "NameError", evalue |-> "v", traceback |-> <<"tb">>]],
     [parent |-> id, msg_type |-> "status",
      content |-> [execution_state |-> "idle"]],
     [parent |-> 0, msg_type |-> "error",
      content |-> [ename |-> "ValueError", evalue |-> "v", traceback |-> <<"tb">>]]}

UnitStreams(id) ==
    {<<>>} \cup {<<m>> : m \in UnitEvents(id)}
           \cup {<<m, n>> : m \in UnitEvents(id), n \in UnitEvents(id)}

\* Faulty variant: the finally block stops whatever kernel is tracked.
StopsKernelAtEnd_Always(r) == TRUE

\* cli.py:193: the finally block stops the kernel.
StopsKernelAtEnd(r) == r.temp_kernel

\* cli.py:120-164.
RunBegin(kind, n, parse, spawnOK) ==
    /\ run.pc = "none"
    /\ IF parse # "ok"
       THEN \* cli.py:128-136, 143-147
            /\ run' = NoRun
            /\ rlog' = [NoLog EXCEPT !.exit = IF parse = "no_cells" THEN <<0>> ELSE <<1>>,
                                     !.setup = parse]
            /\ UNCHANGED <<store, alive, connFiles, spawned, last>>
       ELSE LET h == is_kernel_running(World)
                s == start_kernel(h.w, kind, spawnOK)
            IN IF h.raised # ""
               THEN \* cli.py:154: the exception leaves the command
                    /\ Become(h.w)
                    /\ last' = [NoCall EXCEPT !.op = "is_running", !.raised = h.raised]
                    /\ run' = NoRun
                    /\ rlog' = [NoLog EXCEPT !.exit = <<1>>, !.setup = h.raised]
               ELSE IF h.ret
               THEN /\ Become(h.w)
                    /\ last' = [NoCall EXCEPT !.op = "is_running", !.ok = TRUE]
                    /\ run' = [NoRun EXCEPT !.pc = "connect", !.had_kernel = TRUE,
                                            !.todo = n]
                    /\ rlog' = [NoLog EXCEPT !.tracked = h.w.store, !.selected = n]
               ELSE /\ Become(s.w)
                    /\ last' = [NoCall EXCEPT !.op = "start", !.kind = kind,
                                              !.raised = s.raised, !.state = s.ret]
                    /\ IF s.raised # ""
                       THEN \* cli.py:162-164, or the exception leaves the command
                            /\ run' = NoRun
                            /\ rlog' = [NoLog EXCEPT !.exit = <<1>>, !.setup = s.raised]
                       ELSE /\ run' = [NoRun EXCEPT !.pc = "connect",
                                                    !.temp_kernel = TRUE, !.todo = n]
                            /\ rlog' = [NoLog EXCEPT !.started = s.ret,
                                                      !.selected = n]
    /\ UNCHANGED <<execVars, concVars>>

\* cli.py:169: get_client raises RuntimeError without a tracked kernel and
\* (wait_for_ready) when the kernel is not ready in time.
ConnectFailures == {"NoSessionRunning", "ConnectTimeout"}

\* Faulty variant: a connect failure stops whatever kernel is tracked.
StopsKernelOnConnectFailure_Always(r) == TRUE

\* cli.py:171: the handler of a connect failure stops the kernel.
StopsKernelOnConnectFailure(r) == r.temp_kernel

\* cli.py:166-173.
RunConnect(ready, o) ==
    /\ run.pc = "connect"
    /\ LET c == get_client(World, ready)
           t == stop_kernel(c.w, o)
       IN IF c.raised # "" /\ c.raised \notin ConnectFailures
          THEN \* no RuntimeError: the exception leaves the command
               /\ Become(c.w)
               /\ last' = [NoCall EXCEPT !.op = "get_client", !.raised = c.raised]
               /\ run' = [run EXCEPT !.pc = "none"]
               /\ rlog' = [rlog EXCEPT !.exit = <<1>>, !.setup = c.raised]
          ELSE IF c.raised # ""
          THEN IF StopsKernelOnConnectFailure(run)
               THEN /\ Become(t.w)
                    /\ last' = [NoCall EXCEPT !.op = "stop", !.ok = t.ret,
                                              !.raised = t.raised,
                                              !.steps = t.steps]
                    /\ run' = [run EXCEPT !.pc = "none"]
                    /\ rlog' = [rlog EXCEPT !.stops = @ + 1, !.exit = <<1>>,
                                            !.setup = c.raised]
               ELSE /\ Become(c.w)
                    /\ last' = [NoCall EXCEPT !.op = "get_client", !.raised = c.raised]
                    /\ run' = [run EXCEPT !.pc = "none"]
                    /\ rlog' = [rlog EXCEPT !.exit = <<1>>, !.setup = c.raised]
          ELSE /\ Become(c.w)
               /\ last' = [NoCall EXCEPT !.op = "get_client"]
               /\ run' = [run EXCEPT !.pc = "units", !.client = c.ret]
               /\ UNCHANGED rlog
    /\ UNCHANGED <<execVars, concVars>>

\* Faulty variant: a cell counts as failed when it produced no result.
CountsError_NoResult(output) == output.result = <<>>

\* cli.py:185: if output.error.
CountsError(output) == output.error # <<>>

\* cli.py:201-202: the exit status of a batch whose loop ended normally.
ExitStatus(error_count) == IF error_count > 0 THEN 1 ELSE 0

\* cli.py:180-186: one cell.  throws: execute_code or process_cell_output raises.
\* The cell is the next one of cells_to_run: it has position
\* selected - todo + 1.
RunUnit(evs, throws) ==
    /\ run.pc = "units"
    /\ run.todo > 0
    /\ LET output == execute_code(EmptyAcc, rlog.units + 1, evs)
           cell == rlog.selected - run.todo + 1
       IN
        IF throws
        THEN /\ run' = [run EXCEPT !.pc = "finally", !.raised = TRUE]
             /\ rlog' = [rlog EXCEPT !.used = @ \cup {run.client[1]},
                                     !.units = @ + 1,
                                     !.order = Append(@, cell)]
        ELSE /\ run' = [run EXCEPT
                         !.error_count = IF CountsError(output) THEN @ + 1 ELSE @,
                         !.todo = @ - 1,
                         !.pc = IF run.todo = 1 THEN "finally" ELSE "units"]
             /\ rlog' = [rlog EXCEPT
                          !.used = @ \cup {run.client[1]},
                          !.units = @ + 1,
                          !.failures = IF output.error # <<>> THEN @ + 1 ELSE @,
                          !.order = Append(@, cell),
                          !.errors = Append(@, output.error)]
    /\ UNCHANGED <<store, alive, connFiles, spawned, last, execVars, concVars>>

\* cli.py:188-202.
RunFinally(o) ==
    /\ run.pc = "finally"
    /\ LET t == stop_kernel(World, o)
           code == IF run.raised THEN 1 ELSE ExitStatus(run.error_count)
       IN IF StopsKernelAtEnd(run)
          THEN /\ Become(t.w)
               /\ last' = [NoCall EXCEPT !.op = "stop", !.ok = t.ret,
                                         !.raised = t.raised,
                                         !.steps = t.steps]
               /\ rlog' = [rlog EXCEPT !.stops = @ + 1,
                                       !.exit = IF t.raised # "" THEN <<1>>
                                                ELSE <<code>>]
          ELSE /\ UNCHANGED <<store, alive, connFiles, spawned, last>>
               /\ rlog' = [rlog EXCEPT !.exit = <<code>>]
    /\ run' = [run EXCEPT !.pc = "none"]
    /\ UNCHANGED <<execVars, concVars>>

LifeNext ==
    \/ \E kind \in Kinds, spawnOK \in SpawnOutcomes : Start(kind, spawnOK)
    \/ \E o \in Teardowns : Stop(o)
    \/ \E kind \in Kinds, o \in Teardowns, spawnOK \in SpawnOutcomes :
          Restart(kind, o, spawnOK)
    \/ Status
    \/ \E p \in alive : ProcessEnds(p)
    \/ \E c \in connFiles : ConnectionFileRemoved(c)
    \/ \E kind \in Kinds, n \in 1..MaxUnits, parse \in Parses,
          spawnOK \in SpawnOutcomes : RunBegin(kind, n, parse, spawnOK)
    \/ \E ready \in BOOLEAN, o \in Teardowns : RunConnect(ready, o)
    \/ \E evs \in UnitStreams(rlog.units + 1), throws \in BOOLEAN : RunUnit(evs, throws)
    \/ \E o \in Teardowns : RunFinally(o)

Spec == Init /\ [][LifeNext]_vars

(***************************************************************************)
(* The state file damaged from outside the program: by a crash, another    *)
(* version of the program or an editor.                                    *)
(***************************************************************************)
\* The document in the state file st with the defect d: it keeps the pid
\* and the connection file of the document before as far as load_state can
\* come to read them (0 otherwise, and without a document before).
Damaged(st, d) ==
    LET base == IF st = <<>> THEN KernelState(0, "python3", 0) ELSE st[1] IN
    [malformed |-> d,
     connection_file |-> IF d = "kernel_name_not_str"
                         THEN base.connection_file ELSE 0,
     kernel_name |-> "python3",
     pid |-> IF d \in {"kernel_name_not_str", "connection_file_not_str"}
             THEN base.pid ELSE 0]

StoreCorrupted(d) ==
    /\ run.pc = "none"
    /\ store # <<Damaged(store, d)>>
    /\ store' = <<Damaged(store, d)>>
    /\ UNCHANGED <<alive, connFiles, spawned, last, run, rlog, execVars, concVars>>

StoreNext ==
    \/ \E kind \in Kinds, spawnOK \in SpawnOutcomes : Start(kind, spawnOK)
    \/ \E o \in Teardowns : Stop(o)
    \/ Status
    \/ \E p \in alive : ProcessEnds(p)
    \/ \E c \in connFiles : ConnectionFileRemoved(c)
    \/ \E d \in Defects : StoreCorrupted(d)

\* The single controller issuing start, stop and status commands on a state
\* file that can be damaged.
SpecStore == Init /\ [][StoreNext]_vars

(***************************************************************************)
(* Controller processes running concurrently.  start_kernel is taken in    *)
(* the steps between which another process can run: the check              *)
(* (kernel.py:91-95), the spawn (97-104), and the two steps of             *)
(* save_state's write_text (71): opening the state file for writing, which *)
(* creates it or cuts it to length 0, and writing the document at offset   *)
(* 0.  load_state is one step.  A process that holds the file open keeps   *)
(* writing to it after another process unlinked it (POSIX); what it writes *)
(* is then in no file of the directory.                                    *)
(***************************************************************************)
\* The state file right after open(mode="w"): empty, which is not JSON.
EmptyDoc == Damaged(<<>>, "not_json")

\* What load_state finds in the world w.
Found(w) ==
    IF w.store = <<>> THEN "absent"
    ELSE IF DefectOf(w.store[1]) # "" THEN "malformed"
    ELSE IF load_state(w).ret = <<>> THEN "stale"
    ELSE "record"

\* The controllers after a call changed the world w0 into w1: an unlink of the
\* state file detaches the processes that hold it open.
Detach(ct, w0, w1) ==
    IF w0.store # <<>> /\ w1.store = <<>>
    THEN [d \in Controllers |->
            IF ct[d].pc = "open" THEN [ct[d] EXCEPT !.detached = TRUE] ELSE ct[d]]
    ELSE ct

\* The length of json.dumps(asdict(state)) as far as it differs between
\* kernels: that of the kernel name (pids and connection files are taken to
\* be equally long).
DocLen(state) == Len(state.kernel_name)

\* Faulty variant: the document is written only into an empty state file.
WriteAt0_IfAbsent(content, state) ==
    IF DefectOf(content) = "" THEN content ELSE state

\* kernel.py:71: the document of state written at offset 0 of a file holding
\* content; what is left of a longer document behind it makes the file
\* invalid JSON.
WriteAt0(content, state) ==
    IF DefectOf(content) = "" /\ DocLen(content) > DocLen(state)
    THEN Damaged(<<content>>, "not_json")
    ELSE state

\* Another controller is past its check and has not yet returned.
Racing(c) == \E d \in Controllers \ {c} : ctl[d].pc \in {"loaded", "spawned", "open"}

\* kernel.py:91-95: the check of start_kernel.
CStartLoad(c, kind) ==
    /\ ctl[c].pc \in {"idle", "done"}
    /\ LET l == load_state(World)
           me == [NoCtl EXCEPT !.op = "start", !.kind = kind, !.found = Found(World)]
       IN
        /\ Become(l.w)
        /\ ctl' = [Detach(ctl, World, l.w) EXCEPT ![c] =
                     IF l.raised # ""
                     THEN [me EXCEPT !.pc = "done", !.raised = l.raised]
                     ELSE IF l.ret # <<>>
                     THEN [me EXCEPT !.pc = "done", !.raised = "AlreadyRunning"]
                     ELSE [me EXCEPT !.pc = "loaded", !.racing = Racing(c)]]
    /\ UNCHANGED <<last, run, rlog, execVars>>

\* kernel.py:97-104: the spawn and the record built for it.
CStartSpawn(c, spawnOK) ==
    /\ ctl[c].pc = "loaded"
    /\ IF ~spawnOK
       THEN /\ ctl' = [ctl EXCEPT ![c].pc = "done", ![c].raised = "SpawnFailed"]
            /\ UNCHANGED <<alive, connFiles, spawned>>
       ELSE LET k == spawned + 1 IN
            /\ spawned' = k
            /\ alive' = alive \cup {k}
            /\ connFiles' = connFiles \cup {k}
            /\ ctl' = [ctl EXCEPT ![c].pc = "spawned",
                                  ![c].state = <<KernelState(k, ctl[c].kind, k)>>]
    /\ UNCHANGED <<store, last, run, rlog, execVars>>

\* kernel.py:71: write_text opens the state file for writing.
CSaveOpen(c) ==
    /\ ctl[c].pc = "spawned"
    /\ store' = <<EmptyDoc>>
    /\ ctl' = [ctl EXCEPT ![c].pc = "open"]
    /\ UNCHANGED <<alive, connFiles, spawned, last, run, rlog, execVars>>

\* kernel.py:71 and 105-107: write_text writes the document and closes the
\* file; start_kernel returns the record.
CSaveWrite(c) ==
    /\ ctl[c].pc = "open"
    /\ store' = IF ctl[c].detached \/ store = <<>> THEN store
                ELSE <<WriteAt0(store[1], ctl[c].state[1])>>
    /\ ctl' = [d \in Controllers |->
                IF d = c
                THEN [ctl[c] EXCEPT !.pc = "done", !.ret = ctl[c].state,
                                    !.wroteLast = TRUE]
                ELSE [ctl[d] EXCEPT !.wroteLast = FALSE]]
    /\ UNCHANGED <<alive, connFiles, spawned, last, run, rlog, execVars>>

\* kernel.py:35-65: load_state called by a status command (cli.py:208).
CLoad(c) ==
    /\ ctl[c].pc \in {"idle", "done"}
    /\ LET l == load_state(World) IN
        /\ Become(l.w)
        /\ ctl' = [Detach(ctl, World, l.w) EXCEPT ![c] =
                     [NoCtl EXCEPT !.pc = "done", !.op = "load",
                                   !.found = Found(World), !.ret = l.ret,
                                   !.raised = l.raised]]
    /\ UNCHANGED <<last, run, rlog, execVars>>

ConcNext ==
    \/ \E c \in Controllers, kind \in Kinds : CStartLoad(c, kind)
    \/ \E c \in Controllers, spawnOK \in SpawnOutcomes : CStartSpawn(c, spawnOK)
    \/ \E c \in Controllers : CSaveOpen(c)
    \/ \E c \in Controllers : CSaveWrite(c)
    \/ \E c \in Controllers : CLoad(c)
    \/ \E p \in alive : ProcessEnds(p)
    \/ \E f \in connFiles : ConnectionFileRemoved(f)

\* Two controller processes issuing start and status commands concurrently.
SpecConc == Init /\ [][ConcNext]_vars

ExecNext ==
    \/ \E t \in 0..MaxTimeout : Submit(t)
    \/ \E m \in Notifications({msg_id}) : EmitOwn(m)
    \/ \E m \in CrossTalk(0..MaxCalls) : EmitOther(m)
    \/ Tick
    \/ Receive
    \/ ReceiveTimesOut
    \/ ReceiveFails

\* The clock advances, a waiting message is received, and an expired receive
\* raises; the kernel and the failure of a receive are under no obligation.
SpecExec ==
    /\ Init
    /\ [][ExecNext]_vars
    /\ WF_vars(Tick)
    /\ WF_vars(Receive)
    /\ WF_vars(ReceiveTimesOut)
(***************************************************************************)
(* What a call should return, stated over the history of the call.         *)
(***************************************************************************)
IsStream(m, name) == m.msg_type = "stream" /\ m.content.name = name

NoIdleIn(ms) == \A i \in 1..Len(ms) : ~IsStatus(ms[i], "idle")

\* The concatenation, in order, of the texts of the fragments of ms tagged name.
RECURSIVE TextOf(_, _)
TextOf(ms, name) ==
    IF ms = <<>> THEN ""
    ELSE (IF IsStream(Head(ms), name) THEN Head(ms).content.text ELSE "")
         \o TextOf(Tail(ms), name)

IsDisplay(m) == m.msg_type = "display_data"

\* The payloads, in order, of the display_data notifications of ms.
DisplaysOf(ms) ==
    LET ds == SelectSeq(ms, IsDisplay) IN [i \in 1..Len(ds) |-> ds[i].content.data]

\* The loop's locals after the notifications ms, and nothing else, were collected.
RECURSIVE CollectAll(_, _)
CollectAll(a, ms) ==
    IF ms = <<>> THEN a ELSE CollectAll(Collect(a, Head(ms)), Tail(ms))

\* A call is in progress or has returned.
Returned == pc = "idle" /\ out # <<>>

(* C1: the result of a call is the result computed from the delivered
   notifications whose parent is the call's msg_id, whatever other
   notifications (of an earlier request, of another client) were delivered
   in between: during the loop for the locals, at the return for the
   CellOutput. *)
C1_CrossTalkIgnored ==
    /\ pc = "recv" => acc = CollectAll(EmptyAcc, matched)
    /\ Returned => out = <<CellOutput(CollectAll(EmptyAcc, matched))>>

\* The second call returned output of its own after a notification of the
\* first request was delivered to it.
C1_Witness ==
    /\ Returned
    /\ msg_id = 2
    /\ 1 \in skipped
    /\ out[1].stdout = "a"

(* C2: a call whose request never completes returns; every call that entered
   the loop eventually returns, whatever notifications keep arriving. *)
C2_CallReturns == (pc = "recv") ~> (pc = "idle")

\* The loop runs as long as no idle status of this request was delivered and
\* no receive failed; it has ended exactly when the last notification of this
\* request is its first idle status, or a receive failed.
C8_LoopEnd ==
    /\ pc = "recv" => endedBy = "none" /\ NoIdleIn(matched)
    /\ pc = "idle" /\ msg_id > 0 =>
        \/ endedBy = "recvfail" /\ NoIdleIn(matched)
        \/ /\ endedBy = "idle"
           /\ matched # <<>>
           /\ IsStatus(matched[Len(matched)], "idle")
           /\ NoIdleIn(SubSeq(matched, 1, Len(matched) - 1))

(* C8: the loop ends exactly on the first idle status of this request or on a
   failed receive (C8_LoopEnd in every state): an idle status of another
   request and a busy status of this one do not end it; and the returned
   result does not change while notifications keep arriving after the end. *)
C8_LoopEndsOnCompletionOrFailure ==
    /\ []C8_LoopEnd
    /\ [][pc = "idle" /\ pc' = "idle" => out' = out]_vars

\* A call that skipped an idle status of another request and collected a busy
\* status of its own ended on its own idle status, and a notification waits
\* on the channel after the return.
C8_Witness ==
    /\ Returned
    /\ endedBy = "idle"
    /\ skippedIdle
    /\ \E i \in 1..Len(matched) : IsStatus(matched[i], "busy")
    /\ chan # <<>>

(* C9: stdout is the texts of the stdout fragments of this request in arrival
   order, stderr the same for stderr, display_data the display payloads in
   arrival order; no other notification contributes to these fields, and
   result and error stay None unless an execute_result, respectively an
   error, of this request was delivered. *)
C9_FieldsInArrivalOrder ==
    Returned =>
        /\ out[1].stdout = TextOf(matched, "stdout")
        /\ out[1].stderr = TextOf(matched, "stderr")
        /\ out[1].display_data = DisplaysOf(matched)
        /\ (\A i \in 1..Len(matched) : matched[i].msg_type # "execute_result")
              => out[1].result = <<>>
        /\ (\A i \in 1..Len(matched) : matched[i].msg_type # "error")
              => out[1].error = <<>>

\* A call returned after "b" and then "a" arrived on stdout.
C9_Witness ==
    /\ Returned
    /\ out[1].stdout = "ba"
(***************************************************************************)
(* The lifecycle claims.  A step in which the controller completes a call  *)
(* is one that writes a new entry in last; what the call found is the      *)
(* unprimed state, what it left the primed one.  (A call that changes      *)
(* neither the world nor last is a stuttering step.)                       *)
(***************************************************************************)
Tracked == load_state(World).ret

Called(op) == last' # last /\ last'.op = op

HasStep(steps, name) == \E i \in 1..Len(steps) : steps[i][1] = name

(* C3: a stop that finds a tracked session returns true, leaves the store
   empty (is_kernel_running is false) and has attempted the removal of the
   connection file, whatever the shutdown, the signal and the removal did. *)
C3_StopClearsStore ==
    [][Called("stop") /\ Tracked # <<>> =>
          /\ last'.ok
          /\ store' = <<>>
          /\ ~is_kernel_running(World').ret
          /\ HasStep(last'.steps, "unlink")]_vars

\* A stop returned true and cleared the store although the shutdown raised,
\* the signal raised and the removal raised; the process is still alive.
C3_Witness ==
    /\ last.op = "stop"
    /\ last.ok
    /\ last.steps = <<<<"shutdown", "raised">>, <<"kill", "raised">>,
                      <<"unlink", "raised">>, <<"clear", "done">>>>
    /\ store = <<>>
    /\ alive # {}
    /\ connFiles # {}

(* C4, as claimed: every restart leaves a session tracked in the store. *)
C4_RestartAlwaysTracksOne ==
    [][Called("restart") => Tracked' # <<>>]_vars

(* C4, amended: a restart that returns leaves exactly the session it spawned
   tracked, whether or not one was tracked before and whatever the stop step
   did; a restart never fails with AlreadyRunning, and one whose spawn fails
   raises and leaves no session tracked. *)
C4_RestartTracksOneUnlessSpawnFails ==
    [][Called("restart") =>
          IF last'.raised = ""
          THEN /\ Tracked' = <<KernelState(spawned', last'.kind, spawned')>>
               /\ last'.state = Tracked'
               /\ spawned' = spawned + 1
          ELSE /\ last'.raised = "SpawnFailed"
               /\ store' = <<>>]_vars

\* A restart found a session, stopped it and tracks the one it spawned.
C4_Witness ==
    /\ last.op = "restart"
    /\ last.raised = ""
    /\ HasStep(last.steps, "clear")
    /\ store = last.state
    /\ store # <<>>
    /\ store[1].pid = spawned
    /\ spawned > 1

(* C5: a start that finds a tracked session fails with AlreadyRunning, spawns
   nothing and leaves the store as it is; so every start fails while the
   tracked process lives and its connection file exists. *)
C5_StartFailsWhileTracked ==
    [][Called("start") /\ Tracked # <<>> =>
          /\ last'.raised = "AlreadyRunning"
          /\ last'.state = <<>>
          /\ store' = store
          /\ alive' = alive
          /\ connFiles' = connFiles
          /\ spawned' = spawned]_vars

\* Two starts in a row failed with AlreadyRunning after a successful one.
C5_Witness ==
    /\ last.op = "start"
    /\ last.raised = "AlreadyRunning"
    /\ last.again
    /\ spawned = 1
    /\ Tracked # <<>>

\* load_state returns the persisted record when its process is alive and its
\* connection file exists, and otherwise deletes the record and returns None.
C6_LoadVerdict ==
    store # <<>> =>
        LET l == load_state(World)
            valid == /\ store[1].pid \in alive
                     /\ store[1].connection_file \in connFiles
        IN IF valid
           THEN l.ret = store /\ l.w = World
           ELSE l.ret = <<>> /\ l.w = [World EXCEPT !.store = <<>>]

(* C6: load_state is self-healing (C6_LoadVerdict in every state); a status
   command that finds a stale record leaves the store empty and reports no
   kernel; and is_kernel_running can turn from false to true only by a start
   (alone, in a restart or in a batch) that succeeds. *)
C6_LoadSelfHeals ==
    /\ []C6_LoadVerdict
    /\ [][Called("status") /\ store # <<>> /\ Tracked = <<>> =>
             store' = <<>> /\ ~last'.ok /\ Tracked' = <<>>]_vars
    /\ [][~is_kernel_running(World).ret /\ is_kernel_running(World').ret =>
             /\ last' # last
             /\ last'.op \in {"start", "restart"}
             /\ last'.raised = ""
             /\ store' = last'.state
             /\ spawned' = spawned + 1]_vars

\* A status command deleted a record whose process is alive and whose
\* connection file is gone, and reported no kernel.
C6_Witness ==
    /\ last.op = "status"
    /\ ~last.ok
    /\ HasStep(last.steps, "load")
    /\ store = <<>>
    /\ alive # {}

(* C7: a start that returns found no tracked session and leaves in the store
   the record of the kernel it spawned (its pid, the requested kernel name,
   its connection file), returns that record, and the kernel is alive with
   its connection file; and is_kernel_running is true as long as the tracked
   process is alive and its connection file exists. *)
C7_StartPersistsSpawned ==
    /\ [][Called("start") /\ last'.raised = "" =>
             LET k == spawned + 1 IN
             /\ Tracked = <<>>
             /\ spawned' = k
             /\ alive' = alive \cup {k}
             /\ connFiles' = connFiles \cup {k}
             /\ store' = <<[connection_file |-> k, kernel_name |-> last'.kind,
                            pid |-> k]>>
             /\ last'.state = store'
             /\ is_kernel_running(World').ret]_vars
    /\ [](store # <<>> /\ store[1].pid \in alive
             /\ store[1].connection_file \in connFiles
          => is_kernel_running(World).ret)

\* A start of an "ir" kernel returned the record it persisted.
C7_Witness ==
    /\ last.op = "start"
    /\ last.raised = ""
    /\ last.kind = "ir"
    /\ store = last.state
    /\ store # <<>>
    /\ store[1].kernel_name = "ir"
    /\ store[1].pid \in alive

(* C10: a batch starts a session only if none is tracked when it begins;
   every cell runs on the client of that one session; and when the batch has
   ended, normally or by an exception in a cell, it has called stop_kernel
   exactly when it started the session: a session found at the beginning is
   still the stored record, a temporary one is not tracked. *)
BatchSession == IF rlog.started # <<>> THEN rlog.started ELSE rlog.tracked

BatchEnded == run.pc = "none" /\ rlog.exit # <<>> /\ run.client # <<>>

C10_BatchSessionLifetime ==
    /\ run.pc # "none" \/ BatchEnded =>
        /\ rlog.started # <<>> <=> rlog.tracked = <<>>
        /\ run.temp_kernel <=> rlog.started # <<>>
        /\ run.had_kernel <=> rlog.tracked # <<>>
    /\ run.pc \in {"units", "finally"} \/ BatchEnded =>
        /\ run.client = <<BatchSession[1].connection_file>>
        /\ rlog.used \subseteq {run.client[1]}
    /\ run.pc \in {"connect", "units", "finally"} => rlog.stops = 0
    /\ run.pc \in {"connect", "units", "finally"} /\ rlog.tracked # <<>> =>
        store = rlog.tracked
    /\ BatchEnded =>
        /\ rlog.stops = (IF rlog.started # <<>> THEN 1 ELSE 0)
        /\ store = (IF rlog.started # <<>> THEN <<>> ELSE rlog.tracked)

\* A batch on a session that existed before it ended by an exception in its
\* second cell, and the session is still the stored record.
C10_Witness ==
    /\ BatchEnded
    /\ run.raised
    /\ rlog.units = 2
    /\ rlog.tracked # <<>>
    /\ rlog.stops = 0
    /\ store = rlog.tracked

\* The other case of C10: a batch that started a temporary session ended
\* normally and stopped it.
C10_WitnessTemporary ==
    /\ BatchEnded
    /\ ~run.raised
    /\ rlog.units = 2
    /\ rlog.started # <<>>
    /\ rlog.stops = 1
    /\ store = <<>>

\* The number of results of errs that have their error field set.
RECURSIVE FailureCount(_)
FailureCount(errs) ==
    IF errs = <<>> THEN 0
    ELSE (IF Head(errs) # <<>> THEN 1 ELSE 0) + FailureCount(Tail(errs))

\* The batch executed each of the cells 1..n once, in order.
ExecutedInOrder(n) == rlog.order = [i \in 1..n |-> i]

(* C11, as claimed: every batch whose setup succeeded has executed every
   selected cell once, in order, when it ends; its error counter is the
   number of results with the error field set; and it exits non-zero exactly
   when the counter is positive. *)
C11_EveryUnitRunsExitReflectsFailures ==
    BatchEnded =>
        /\ ExecutedInOrder(rlog.selected)
        /\ run.error_count = FailureCount(rlog.errors)
        /\ rlog.exit[1] # 0 <=> run.error_count > 0

(* C11, amended: while no execute_code call and no output processing raises,
   the cells run once each, in order, whether or not their results have the
   error field set, and the counter is the number of results so far that
   have it set; a batch that ends this way has run every selected cell and
   exits non-zero exactly when the counter is positive.  A batch in which a
   cell raises ends at that cell, after the cells before it ran in order,
   and exits non-zero. *)
C11_UnitsRunUnlessOneRaises ==
    /\ run.pc \in {"units", "finally"} \/ BatchEnded =>
        /\ rlog.units <= rlog.selected
        /\ ExecutedInOrder(rlog.units)
        /\ run.error_count = FailureCount(rlog.errors)
    /\ run.pc = "units" => ~run.raised /\ rlog.units < rlog.selected
    /\ run.pc = "finally" \/ BatchEnded =>
        IF run.raised
        THEN Len(rlog.errors) = rlog.units - 1
        ELSE /\ rlog.units = rlog.selected
             /\ Len(rlog.errors) = rlog.selected
    /\ BatchEnded =>
        IF run.raised
        THEN rlog.exit[1] # 0
        ELSE rlog.exit[1] # 0 <=> run.error_count > 0

\* A batch of two cells ended with exit status 1: the result of the first
\* cell has the error field set, the second cell ran and has it not.
C11_Witness ==
    /\ BatchEnded
    /\ ~run.raised
    /\ rlog.order = <<1, 2>>
    /\ rlog.errors[1] # <<>>
    /\ rlog.errors[2] = <<>>
    /\ run.error_count = 1
    /\ rlog.exit = <<1>>

(* C12: a stop that finds no tracked session returns false and takes no
   teardown step: no process ends, no connection file is removed and nothing
   is spawned (a stale record, if there is one, is deleted by load_state).
   A stop after a stop that returned true returns false and leaves the
   store, the processes and the connection files as they are. *)
C12_StopWithoutSessionIsNoOp ==
    /\ [][Called("stop") /\ Tracked = <<>> =>
             /\ ~last'.ok
             /\ last'.steps = <<>>
             /\ alive' = alive
             /\ connFiles' = connFiles
             /\ spawned' = spawned
             /\ store' = <<>>]_vars
    /\ [][Called("stop") /\ last.op = "stop" /\ last.ok =>
             /\ ~last'.ok
             /\ last'.steps = <<>>
             /\ store' = store
             /\ alive' = alive
             /\ connFiles' = connFiles
             /\ spawned' = spawned]_vars

\* A stop returned false directly after a stop that returned true; the process
\* and the connection file that the first stop left behind are still there.
C12_Witness ==
    /\ last.op = "stop"
    /\ ~last.ok
    /\ last.again
    /\ last.steps = <<>>
    /\ store = <<>>
    /\ alive # {}
    /\ connFiles # {}

Malformed == store # <<>> /\ DefectOf(store[1]) # ""

\* On a state file with a malformed document load_state returns None, deletes
\* the file and raises nothing.
C13_LoadVerdict ==
    Malformed =>
        load_state(World) = [w |-> clear_state(World), ret |-> <<>>, raised |-> ""]

(* C13: a malformed document in the state file is like no state file
   (C13_LoadVerdict in every state), and a start that finds one does what it
   does without a state file: it spawns a kernel and persists its record, or
   fails because the spawn failed. *)
C13_MalformedIsAbsent ==
    /\ []C13_LoadVerdict
    /\ [][Called("start") /\ Malformed =>
             /\ last'.raised \in {"", "SpawnFailed"}
             /\ World' = start_kernel(clear_state(World), last'.kind,
                                      last'.raised = "").w]_vars

(* C14: no load_state of a controller process finds the state file
   malformed: concurrent with a save_state of another process it finds the
   content before the save or the complete new document, and so never
   deletes a record that is being saved. *)
C14_SaveIsAtomic ==
    \A c \in Controllers : ctl[c].found # "malformed"

\* The starts of d and c overlapped, both returned their records, and both
\* kernels are alive.
BothStarted(c, d) ==
    /\ c # d
    /\ ctl[c].pc = "done" /\ ctl[c].op = "start" /\ ctl[c].raised = ""
    /\ ctl[d].pc = "done" /\ ctl[d].op = "start" /\ ctl[d].raised = ""
    /\ ctl[c].racing
    /\ ctl[c].found = "absent" /\ ctl[d].found = "absent"
    /\ ctl[c].ret # <<>> /\ ctl[d].ret # <<>>
    /\ {ctl[c].ret[1].pid, ctl[d].ret[1].pid} \subseteq alive

(* C15: nothing guards start_kernel between its check and its save.  A
   controller that passed the check spawns and saves whatever the other
   controllers did meanwhile: the step that completes its save_state writes
   its document over the content of the state file (also over the complete
   record of another controller, of which a tail can remain) unless the
   file was unlinked, and start_kernel returns the record of the kernel it
   spawned.  So two controllers whose starts overlap can both return, each
   with a kernel of its own. *)
C15_StartUnguarded ==
    /\ [][\A c \in Controllers :
              ctl[c].pc = "open" /\ ctl'[c].pc = "done" =>
                 /\ ctl'[c].raised = ""
                 /\ ctl'[c].ret = ctl[c].state
                 /\ ctl'[c].ret[1].pid \in 1..spawned
                 /\ \/ ctl[c].detached /\ store' = store
                    \/ store' = ctl[c].state
                    \/ /\ store # <<EmptyDoc>>
                       /\ DocLen(store[1]) > DocLen(ctl[c].state[1])
                       /\ DefectOf(store'[1]) = "not_json"]_vars
    /\ [](\A c, d \in Controllers :
              BothStarted(c, d) => ctl[c].ret[1].pid # ctl[d].ret[1].pid)

\* Both controllers found no state file, spawned a kernel and returned; both
\* kernels are alive and the store tracks only that of c, which saved last.
C15_Witness ==
    \E c, d \in Controllers :
        /\ BothStarted(c, d)
        /\ ctl[c].wroteLast
        /\ store = ctl[c].ret
        /\ store # ctl[d].ret
        /\ load_state(World).ret = ctl[c].ret

\* The names of the teardown steps, in the order they were taken.
StepNames(steps) == [i \in 1..Len(steps) |-> steps[i][1]]

(* C16: a stop_kernel (alone or in a restart) that finds a tracked session
   takes the steps shutdown, kill if and only if the shutdown raised,
   unlink, clear, in this order; a shutdown that returns without ending the
   process leaves it alive (no signal is sent); and when the signal raises
   because the process is gone, the connection file is still removed and the
   store cleared, and no error leaves stop_kernel. *)
C16_TeardownOrder ==
    [][(Called("stop") \/ Called("restart")) /\ Tracked # <<>> =>
          LET st == last'.steps
              failed == st[1][2] \in {"raised", "raised_ended"}
          IN
          /\ st # <<>>
          /\ StepNames(st) = IF failed
                             THEN <<"shutdown", "kill", "unlink", "clear">>
                             ELSE <<"shutdown", "unlink", "clear">>
          /\ st[1][2] = "returned" => Tracked[1].pid \in alive'
          /\ failed /\ st[2][2] = "raised" =>
                /\ st[3][2] = "removed" => Tracked[1].connection_file \notin connFiles'
                /\ last'.raised \in {"", "SpawnFailed"}
                /\ last'.op = "stop" => last'.ok /\ store' = <<>>]_vars

\* A stop whose shutdown raised although the process had ended: the signal
\* raised and was ignored, the connection file was removed and the store
\* cleared.
C16_Witness ==
    /\ last.op = "stop"
    /\ last.ok
    /\ last.steps = <<<<"shutdown", "raised_ended">>, <<"kill", "raised">>,
                      <<"unlink", "removed">>, <<"clear", "done">>>>
    /\ store = <<>>
    /\ spawned = 1
    /\ alive = {}
    /\ connFiles = {}

\* Neither the shutdown nor the signal of these teardown steps ended the
\* process.
NotEnded(steps) ==
    \/ steps[1][2] = "returned"
    \/ steps[1][2] = "raised" /\ steps[2][2] \in {"survived", "raised"}

(* C17: a stop_kernel (alone or in a restart) on a tracked session whose
   shutdown and signal did not end the process leaves the process alive and
   no longer tracked; the start of a restart that follows spawns a second
   kernel, so that both are alive and the store tracks the newer; and no
   start ends a process. *)
C17_StopLeavesProcess ==
    /\ [][(Called("stop") \/ Called("restart")) /\ Tracked # <<>>
            /\ NotEnded(last'.steps) =>
              /\ Tracked[1].pid \in alive'
              /\ Tracked' # Tracked
              /\ last'.op = "stop" => Tracked' = <<>>
              /\ last'.op = "restart" /\ last'.raised = "" =>
                    /\ Tracked'[1].pid = spawned'
                    /\ spawned' # Tracked[1].pid
                    /\ {Tracked[1].pid, spawned'} \subseteq alive']_vars
    /\ [][(Called("start") \/ Called("restart")) /\ last'.raised = "" /\ Tracked = <<>> =>
              alive' = alive \cup {spawned'}]_vars

\* A restart whose shutdown returned without ending the tracked kernel 1
\* spawned kernel 2: both are alive and only kernel 2 is tracked.
C17_Witness ==
    /\ last.op = "restart"
    /\ last.raised = ""
    /\ last.steps # <<>>
    /\ last.steps[1] = <<"shutdown", "returned">>
    /\ alive = {1, 2}
    /\ Tracked # <<>>
    /\ Tracked[1].pid = 2

(* C18: a start_kernel (alone, in a restart or in a batch) whose spawn fails
   raises SpawnFailed and returns no record; afterwards there is no state
   file and is_kernel_running is false, and no process or connection file
   was created.  The state file gets a new content only in a step that
   spawned a kernel, and the content is the record of that kernel, alive and
   with its connection file. *)
C18_SpawnFailurePersistsNothing ==
    /\ [][(Called("start") \/ Called("restart")) /\ last'.raised = "SpawnFailed" =>
              /\ last'.state = <<>>
              /\ store' = <<>>
              /\ ~is_kernel_running(World').ret
              /\ spawned' = spawned
              /\ alive' \subseteq alive
              /\ connFiles' \subseteq connFiles]_vars
    /\ [][store' # store /\ store' # <<>> =>
              /\ spawned' = spawned + 1
              /\ store' = <<KernelState(spawned', last'.kind, spawned')>>
              /\ spawned' \in alive'
              /\ spawned' \in connFiles'
              /\ last'.raised = ""]_vars

\* A start failed in its spawn after load_state had deleted the record of a
\* kernel that is gone: there is no state file.
C18_Witness ==
    /\ last.op = "start"
    /\ last.raised = "SpawnFailed"
    /\ last.state = <<>>
    /\ store = <<>>
    /\ spawned = 1
    /\ alive = {}

(* C19: within one call the locals result and error are set at most once:
   once result holds the data of an execute_result it keeps it until the
   call returns, whatever notifications of the request follow, and the same
   for error. *)
C19_SetAtMostOnce ==
    [][pc = "recv" /\ msg_id' = msg_id =>
          /\ acc.result # <<>> => acc'.result = acc.result
          /\ acc.error # <<>> => acc'.error = acc.error]_vars

\* The errors that can end the setup of a batch.
SetupErrors ==
    {"parse_error", "bad_selector", "AlreadyRunning", "SpawnFailed"}
    \cup ConnectFailures

(* C20: a batch whose setup ended with an error (a parse or selector error,
   a failed start, a failed connect) has ended with exit status 1 without
   executing a cell.  After a connect failure of a batch that started a
   temporary kernel, stop_kernel was called once and no state file is left;
   after a connect failure on a kernel that was tracked before the batch,
   stop_kernel was not called and the state file is as get_client left it:
   the record of that kernel, unchanged, after a ready timeout. *)
C20_SetupErrorAborts ==
    /\ rlog.setup \in SetupErrors =>
        /\ run.pc = "none"
        /\ rlog.exit = <<1>>
        /\ rlog.units = 0
        /\ rlog.order = <<>>
        /\ rlog.used = {}
    /\ rlog.setup \in ConnectFailures /\ rlog.started # <<>> =>
        /\ rlog.stops = 1
        /\ store = <<>>
        /\ Tracked = <<>>
    /\ rlog.setup \in ConnectFailures /\ rlog.started = <<>> =>
        /\ rlog.tracked # <<>>
        /\ rlog.stops = 0
        /\ last.op = "get_client"
        /\ rlog.setup = "ConnectTimeout" => store = rlog.tracked
        /\ rlog.setup = "NoSessionRunning" => store = <<>>

\* A batch started a temporary kernel, the kernel was not ready in time, and
\* the batch stopped it and ended with exit status 1; no cell was executed.
C20_Witness ==
    /\ rlog.setup = "ConnectTimeout"
    /\ rlog.started # <<>>
    /\ rlog.stops = 1
    /\ rlog.exit = <<1>>
    /\ rlog.units = 0
    /\ last.op = "stop"
    /\ last.ok
    /\ store = <<>>
    /\ rlog.started[1].pid \notin alive

\* All that load_state can change is the state file, and only by deleting
\* it; a valid record is returned and nothing is changed.
C21_LoadFrame ==
    LET l == load_state(World) IN
    /\ l.w.alive = alive
    /\ l.w.connFiles = connFiles
    /\ l.w.spawned = spawned
    /\ l.w.store \in {store, <<>>}
    /\ l.ret # <<>> => l.w = World /\ l.ret = store

(* C21: load_state ends no process, removes no connection file and spawns
   nothing; it deletes the state file or leaves it (C21_LoadFrame in every
   state), and the commands that only load (status, a stop that finds
   nothing tracked) change nothing else.  A record whose connection file is
   gone while its process lives is deleted and the process stays alive,
   untracked; a stop that then finds nothing tracked returns False and ends
   no process. *)
C21_LoadOnlyDeletesRecord ==
    /\ []C21_LoadFrame
    /\ [][Called("status") \/ (Called("stop") /\ Tracked = <<>>) =>
             /\ alive' = alive
             /\ connFiles' = connFiles
             /\ spawned' = spawned
             /\ store' = (IF Tracked # <<>> THEN store ELSE <<>>)]_vars
    /\ [][(Called("status") \/ Called("stop")) /\ store # <<>>
            /\ store[1].pid \in alive
            /\ store[1].connection_file \notin connFiles =>
             /\ store' = <<>>
             /\ ~last'.ok
             /\ last'.steps \in {<<>>, <<<<"load", "deleted">>>>}
             /\ store[1].pid \in alive'
             /\ Tracked' = <<>>]_vars
    /\ [][Called("stop") /\ store = <<>> =>
             ~last'.ok /\ alive' = alive /\ store' = <<>>]_vars

\* A stop found the record of kernel 1, whose connection file is gone,
\* deleted it and returned False; the process of kernel 1 is still alive and
\* nothing is tracked.
C21_Witness ==
    /\ last.op = "stop"
    /\ ~last.ok
    /\ last.steps = <<>>
    /\ last.healed = <<KernelState(1, "python3", 1)>>
    /\ store = <<>>
    /\ alive = {1}
    /\ connFiles = {}
====
